---- MODULE Spec2Model ----
(***************************************************************************)
(* The two notebooks of mxnet-the-straight-dope:                           *)
(*   - the multilayer perceptron trained from scratch (softmax,            *)
(*     cross_entropy, SGD, evaluate_accuracy and the training loop);       *)
(*   - the NDArray tutorial (in-place writes, asnumpy, nd.array, copyto,   *)
(*     as_in_context).                                                     *)
(* Floating-point values are exact rationals extended with NaN and the     *)
(* two infinities, combined by the IEEE-754 rules; exp and log are         *)
(* computed in base 2 on a format of reduced exponent range.               *)
(***************************************************************************)
EXTENDS Integers, Sequences, FiniteSets, TLC

VARIABLES
    \* ---- multilayer perceptron notebook
    pc,             \* position of the training cell
    e,              \* epoch counter of "for e in range(epochs)"
    i,              \* batch counter of "enumerate(train_data)"
    cursor,         \* position of the iterators train_data and test_data
    heap,           \* buffer id -> contents of the NDArray buffer
    gradbuf,        \* buffer id -> contents of the attached gradient buffer
    params,         \* the python list params: sequence of buffer ids
    names,          \* the python names W1..b3: name -> buffer id
    output,         \* output of the current batch
    loss,           \* loss of the current batch (one value per sample)
    moving_loss,    \* the python float moving_loss
    metric,         \* the global mx.metric.Accuracy(): sum_metric, num_inst
    test_accuracy,  \* value returned by the epoch's first evaluate_accuracy
    train_accuracy, \* value returned by the epoch's second evaluate_accuracy
    printed,        \* lines printed so far
    hist,           \* history: steps taken for the current batch
    nUpdates,       \* history: number of SGD calls so far
    gradOf,         \* history: <<epoch, batch>> whose backward wrote gradbuf
    lastEval,       \* history: samples seen and hits of the last evaluation
    prevMoving,     \* history: moving_loss before the last assignment to it
    \* ---- NDArray tutorial
    nd,             \* buffer id -> [ctx, data, lib] of an allocated array
    env,            \* python name -> buffer id (0: unbound)
    last,           \* history: the last tutorial statement and what it saw
    \* ---- pure functions applied to drawn inputs
    fn_in,          \* argument tensor (scores for softmax, yhat for cross_entropy)
    fn_label,       \* labels of the batch (cross_entropy)
    fn_out,         \* result tensor
    fn_pc           \* "in", "softmax" or "cross_entropy"

mlpVars == <<pc, e, i, cursor, heap, gradbuf, params, names, output, loss,
             moving_loss, metric, test_accuracy, train_accuracy, printed, hist,
             nUpdates, gradOf, lastEval, prevMoving>>
ndVars == <<nd, env, last>>
fnVars == <<fn_in, fn_label, fn_out, fn_pc>>
vars == <<mlpVars, ndVars, fnVars>>

-----------------------------------------------------------------------------
(* Floating point: a value is a rational n/d in lowest terms, NaN, +inf or  *)
(* -inf.                                                                    *)

Abs(n) == IF n < 0 THEN -n ELSE n

RECURSIVE Gcd(_, _)
Gcd(a, b) == IF b = 0 THEN a ELSE Gcd(b, a % b)

NaN == [t |-> "nan", n |-> 0, d |-> 1]
PInf == [t |-> "inf", n |-> 1, d |-> 1]
NInf == [t |-> "inf", n |-> -1, d |-> 1]

Rat(n, d) ==
    LET s == IF d < 0 THEN -1 ELSE 1
        g == Gcd(Abs(n), Abs(d))
    IN [t |-> "fin", n |-> (s * n) \div g, d |-> (s * d) \div g]

Fin(n) == [t |-> "fin", n |-> n, d |-> 1]

IsNaN(a) == a.t = "nan"
IsFin(a) == a.t = "fin"
IsInf(a) == a.t = "inf"
Sign(a) == IF a.n > 0 THEN 1 ELSE IF a.n < 0 THEN -1 ELSE 0
InfOf(s) == IF s > 0 THEN PInf ELSE NInf

FNeg(a) == IF IsNaN(a) THEN NaN ELSE [a EXCEPT !.n = -a.n]

FAdd(a, b) ==
    IF IsNaN(a) \/ IsNaN(b) THEN NaN
    ELSE IF IsInf(a) /\ IsInf(b) THEN (IF a.n = b.n THEN a ELSE NaN)
    ELSE IF IsInf(a) THEN a
    ELSE IF IsInf(b) THEN b
    ELSE Rat(a.n * b.d + b.n * a.d, a.d * b.d)

FSub(a, b) == FAdd(a, FNeg(b))

FMul(a, b) ==
    IF IsNaN(a) \/ IsNaN(b) THEN NaN
    ELSE IF IsInf(a) \/ IsInf(b)
         THEN (IF Sign(a) * Sign(b) = 0 THEN NaN ELSE InfOf(Sign(a) * Sign(b)))
    ELSE Rat(a.n * b.n, a.d * b.d)

FDiv(a, b) ==
    IF IsNaN(a) \/ IsNaN(b) THEN NaN
    ELSE IF IsInf(a) THEN (IF IsInf(b) THEN NaN
                           ELSE InfOf(Sign(a) * (IF b.n < 0 THEN -1 ELSE 1)))
    ELSE IF IsInf(b) THEN Fin(0)
    ELSE IF b.n = 0 THEN (IF a.n = 0 THEN NaN ELSE InfOf(Sign(a)))
    ELSE Rat(a.n * b.d, a.d * b.n)

\* a > b; every comparison with NaN is false
FGt(a, b) ==
    IF IsNaN(a) \/ IsNaN(b) THEN FALSE
    ELSE IF IsInf(a) THEN a.n > 0 /\ a # b
    ELSE IF IsInf(b) THEN b.n < 0
    ELSE a.n * b.d > b.n * a.d

\* the element-wise maximum kernel: a > b ? a : b
FMax(a, b) == IF FGt(a, b) THEN a ELSE b

\* exponent range of the floating-point format (float32: 149 binary digits
\* below one before a result is flushed to zero)
ExpRange == 4

RECURSIVE Pow2(_)
Pow2(k) == IF k = 0 THEN 1 ELSE 2 * Pow2(k - 1)

\* floor(n / d) for d > 0
Floor(a) == a.n \div a.d

\* nd.exp: 2^x rounded to the format; below the range the result is 0,
\* above it +inf
FExp(a) ==
    IF IsNaN(a) THEN NaN
    ELSE IF IsInf(a) THEN (IF a.n > 0 THEN PInf ELSE Fin(0))
    ELSE IF Floor(a) < -ExpRange THEN Fin(0)
    ELSE IF Floor(a) > ExpRange THEN PInf
    ELSE IF Floor(a) >= 0 THEN Fin(Pow2(Floor(a)))
    ELSE Rat(1, Pow2(-Floor(a)))

RECURSIVE ILog2(_)
ILog2(n) == IF n <= 1 THEN 0 ELSE 1 + ILog2(n \div 2)

\* nd.log: log2 rounded to the format; log(0) = -inf, log of a negative
\* number is NaN
FLog(a) ==
    IF IsNaN(a) THEN NaN
    ELSE IF IsInf(a) THEN (IF a.n > 0 THEN PInf ELSE NaN)
    ELSE IF a.n < 0 THEN NaN
    ELSE IF a.n = 0 THEN NInf
    ELSE Fin(ILog2(a.n) - ILog2(a.d))

-----------------------------------------------------------------------------
(* Tensors: a matrix is a sequence of rows, a vector is a sequence.         *)

HasNonFinite(v) == \E k \in 1..Len(v) : ~IsFin(v[k])

RECURSIVE FSum(_)
FSum(v) == IF v = <<>> THEN Fin(0) ELSE FAdd(Head(v), FSum(Tail(v)))

RECURSIVE VMax(_)
VMax(v) == IF Len(v) = 1 THEN v[1] ELSE FMax(VMax(SubSeq(v, 1, Len(v) - 1)), v[Len(v)])

RECURSIVE Flatten(_)
Flatten(m) == IF m = <<>> THEN <<>> ELSE Head(m) \o Flatten(Tail(m))

\* nd.max(m): the maximum over all elements
NdMax(m) == VMax(Flatten(m))

\* nd.sum(m, axis=0, exclude=True): sum over every axis but the first
\* the tuple with the elements of the function s on 1..n
Tup(s) == s \o <<>>

NdSumRows(m) == Tup([r \in 1..Len(m) |-> FSum(m[r])])

MapM(Op(_), m) ==
    Tup([r \in 1..Len(m) |-> Tup([c \in 1..Len(m[r]) |-> Op(m[r][c])])])

Zip2M(Op(_, _), a, b) ==
    Tup([r \in 1..Len(a) |-> Tup([c \in 1..Len(a[r]) |-> Op(a[r][c], b[r][c])])])

\* nd.dot(a, b)
Dot(a, b) ==
    Tup([r \in 1..Len(a) |->
        Tup([c \in 1..Len(b[1]) |->
            FSum(Tup([k \in 1..Len(b) |-> FMul(a[r][k], b[k][c])]))])])

\* m + v with v broadcast along the first axis
AddBias(m, v) ==
    Tup([r \in 1..Len(m) |-> Tup([c \in 1..Len(m[r]) |-> FAdd(m[r][c], v[c])])])

\* nd.one_hot(label, depth); classes are 0..depth-1
OneHot(label, depth) ==
    Tup([r \in 1..Len(label) |->
        Tup([c \in 1..depth |-> IF c - 1 = label[r] THEN Fin(1) ELSE Fin(0)])])

-----------------------------------------------------------------------------
(* The functions of the multilayer perceptron notebook.                     *)

relu(X) == MapM(LAMBDA x : FMax(x, Fin(0)), X)

softmax(y_linear) ==
    LET mx == NdMax(y_linear)
        exp == MapM(LAMBDA x : FExp(FSub(x, mx)), y_linear)
        partition == NdSumRows(exp)
    IN Tup([r \in 1..Len(exp) |->
            Tup([c \in 1..Len(exp[r]) |-> FDiv(exp[r][c], partition[r])])])

cross_entropy(yhat, y) ==
    LET prod == Zip2M(FMul, y, MapM(FLog, yhat))
        s == NdSumRows(prod)
    IN Tup([r \in 1..Len(s) |-> FNeg(s[r])])

\* nd.one_hot(label, 10): the number of classes
NumClasses == 2

\* net(X), reading the parameters through the names W1..b3
net(h, nm, X) ==
    LET h1_linear == AddBias(Dot(X, h[nm.W1]), h[nm.b1][1])
        h1 == relu(h1_linear)
        h2_linear == AddBias(Dot(h1, h[nm.W2]), h[nm.b2][1])
        h2 == relu(h2_linear)
        yhat_linear == AddBias(Dot(h2, h[nm.W3]), h[nm.b3][1])
        yhat == softmax(yhat_linear)
    IN yhat

\* variant: param = value binds the loop variable to a new array and leaves
\* the buffer of the parameter as it was
SliceAssign_rebind(h, id, value) == Append(h, value)

\* param[:] = value: a write into the buffer the object already owns
SliceAssign(h, id, value) == [h EXCEPT ![id] = value]

\* param - lr * param.grad
SgdValue(p, lr, g) == Zip2M(LAMBDA a, b : FSub(a, FMul(lr, b)), p, g)

\* variant: the update is skipped when a gradient is not finite
SGD_skipNaN(h, g, ps, lr) ==
    IF \E k \in 1..Len(ps) : \E r \in 1..Len(g[ps[k]]) : HasNonFinite(g[ps[k]][r])
    THEN h
    ELSE [id \in DOMAIN h |->
            IF \E k \in 1..Len(ps) : ps[k] = id
            THEN SgdValue(h[id], lr, g[id]) ELSE h[id]]

RECURSIVE SGD(_, _, _, _)
SGD(h, g, ps, lr) ==
    IF ps = <<>> THEN h
    ELSE SGD(SliceAssign(h, Head(ps), SgdValue(h[Head(ps)], lr, g[Head(ps)])),
             g, Tail(ps), lr)

\* argmax over the classes of one row (first maximum; a NaN never compares
\* greater), as a class number 0..depth-1
RECURSIVE ArgMaxFrom(_, _, _)
ArgMaxFrom(row, best, k) ==
    IF k > Len(row) THEN best - 1
    ELSE ArgMaxFrom(row, IF FGt(row[k], row[best]) THEN k ELSE best, k + 1)

ArgMax(row) == ArgMaxFrom(row, 1, 2)

\* number of rows of out whose argmax is the label
Hits(label, out) == Cardinality({r \in 1..Len(label) : ArgMax(out[r]) = label[r]})

\* metric.update([label], [output])
MetricUpdate(m, label, out) ==
    [sum_metric |-> m.sum_metric + Hits(label, out),
     num_inst |-> m.num_inst + Len(label)]

\* metric.get()[1]
MetricGet(m) == IF m.num_inst = 0 THEN NaN ELSE Rat(m.sum_metric, m.num_inst)

\* the loop of evaluate_accuracy over the batches of data_iterator
RECURSIVE EvalLoop(_, _, _, _)
EvalLoop(m, batches, h, nm) ==
    IF batches = <<>> THEN m
    ELSE EvalLoop(MetricUpdate(m, Head(batches).label, net(h, nm, Head(batches).data)),
                  Tail(batches), h, nm)

-----------------------------------------------------------------------------
(* The training cell of the multilayer perceptron notebook.                 *)

\* epochs
Epochs == 2

\* the learning rate .01 passed to SGD
Lr == Rat(1, 100)

\* the weights .99 and .01 of the moving average
Keep == Rat(99, 100)
Blend == Rat(1, 100)

Vec(s) == Tup([k \in 1..Len(s) |-> Fin(s[k])])
Col(s) == Tup([k \in 1..Len(s) |-> <<Fin(s[k])>>])

\* train_data and test_data: batches of one-pixel images with their labels,
\* in the order the iterator yields them
TrainData == << [data |-> Col(<<0, 2>>), label |-> <<0, 1>>],
                [data |-> Col(<<2, 0>>), label |-> <<1, 1>>] >>
TestData == << [data |-> Col(<<0, 2>>), label |-> <<1, 1>>] >>

Iterators == [train |-> TrainData, test |-> TestData]

ParamIds == [W1 |-> 1, b1 |-> 2, W2 |-> 3, b2 |-> 4, W3 |-> 5, b3 |-> 6]

\* the values nd.random_normal(...) * .01 may draw: one hidden unit per
\* layer, NumClasses outputs
InitHeaps ==
    { [id \in 1..6 |->
         CASE id = 1 -> <<Vec(<<w>>)>>
           [] id = 2 -> <<Vec(<<0>>)>>
           [] id = 3 -> <<Vec(<<1>>)>>
           [] id = 4 -> <<Vec(<<0>>)>>
           [] id = 5 -> <<[c \in 1..NumClasses |-> Fin(c - 1)]>>
           [] id = 6 -> <<[c \in 1..NumClasses |-> IF c = 1 THEN Fin(b) ELSE Fin(0)]>>]
      : w \in {0, 1}, b \in {0, 1} }

Like(m, x) == Tup([r \in 1..Len(m) |-> Tup([c \in 1..Len(m[r]) |-> x])])

\* param.attach_grad(): a gradient buffer of the parameter's shape
AttachGrad(h) == [id \in DOMAIN h |-> Like(h[id], Fin(0))]

AllNaN(h) == [id \in DOMAIN h |-> Like(h[id], NaN)]

\* the gradients the differentiation engine may deliver for a finite loss
GradChoices(h) ==
    { [id \in DOMAIN h |-> Like(h[id], IF id = t THEN Fin(g) ELSE Fin(0))]
      : t \in {1, 6}, g \in {0, -200} }

\* the other notebook and the function bench are not running
NoNdState == /\ nd = <<>> /\ env = <<>> /\ last = <<>>
NoFnState == /\ fn_in = <<>> /\ fn_label = <<>> /\ fn_out = <<>> /\ fn_pc = "off"

Init ==
    /\ pc = "epoch"
    /\ e = 0
    /\ i = 0
    /\ cursor = [train |-> 0, test |-> 0]
    /\ heap \in InitHeaps
    /\ gradbuf = AttachGrad(heap)
    /\ params = <<ParamIds.W1, ParamIds.b1, ParamIds.W2, ParamIds.b2, ParamIds.W3, ParamIds.b3>>
    /\ names = ParamIds
    /\ output = <<>>
    /\ loss = <<>>
    /\ moving_loss = Fin(0)
    /\ metric = [sum_metric |-> 0, num_inst |-> 0]
    /\ test_accuracy = NaN
    /\ train_accuracy = NaN
    /\ printed = <<>>
    /\ hist = <<>>
    /\ nUpdates = 0
    /\ gradOf = <<-1, -1>>
    /\ lastEval = [hits |-> 0, n |-> 0, which |-> "none"]
    /\ prevMoving = Fin(0)
    /\ NoNdState
    /\ NoFnState

\* for e in range(epochs): train_data.reset()
EpochStart ==
    /\ pc = "epoch"
    /\ e < Epochs
    /\ cursor' = [cursor EXCEPT !.train = 0]
    /\ pc' = "batch"
    /\ UNCHANGED <<e, i, heap, gradbuf, params, names, output, loss, moving_loss,
                   metric, test_accuracy, train_accuracy, printed, hist, nUpdates,
                   gradOf, lastEval, prevMoving>>
    /\ UNCHANGED <<ndVars, fnVars>>

\* range(epochs) is exhausted
Finish ==
    /\ pc = "epoch"
    /\ e >= Epochs
    /\ pc' = "done"
    /\ UNCHANGED <<e, i, cursor, heap, gradbuf, params, names, output, loss,
                   moving_loss, metric, test_accuracy, train_accuracy, printed, hist,
                   nUpdates, gradOf, lastEval, prevMoving>>
    /\ UNCHANGED <<ndVars, fnVars>>

\* for i, batch in enumerate(train_data): the next batch, or the end of the loop
NextBatch ==
    /\ pc = "batch"
    /\ IF cursor.train < Len(TrainData)
       THEN /\ i' = cursor.train
            /\ cursor' = [cursor EXCEPT !.train = @ + 1]
            /\ hist' = <<>>
            /\ pc' = "forward"
       ELSE /\ pc' = "eval_test"
            /\ UNCHANGED <<i, cursor, hist>>
    /\ UNCHANGED <<e, heap, gradbuf, params, names, output, loss, moving_loss,
                   metric, test_accuracy, train_accuracy, printed, nUpdates, gradOf,
                   lastEval, prevMoving>>
    /\ UNCHANGED <<ndVars, fnVars>>

Batch == TrainData[i + 1]

\* output = net(data)
Forward ==
    /\ pc = "forward"
    /\ output' = net(heap, names, Batch.data)
    /\ hist' = Append(hist, "forward")
    /\ pc' = "loss"
    /\ UNCHANGED <<e, i, cursor, heap, gradbuf, params, names, loss, moving_loss,
                   metric, test_accuracy, train_accuracy, printed, nUpdates, gradOf,
                   lastEval, prevMoving>>
    /\ UNCHANGED <<ndVars, fnVars>>

\* loss = cross_entropy(output, label_one_hot)
Loss ==
    /\ pc = "loss"
    /\ loss' = cross_entropy(output, OneHot(Batch.label, NumClasses))
    /\ hist' = Append(hist, "loss")
    /\ pc' = "backward"
    /\ UNCHANGED <<e, i, cursor, heap, gradbuf, params, names, output, moving_loss,
                   metric, test_accuracy, train_accuracy, printed, nUpdates, gradOf,
                   lastEval, prevMoving>>
    /\ UNCHANGED <<ndVars, fnVars>>

\* variant: the backward pass is left out and SGD reads the gradients of an
\* earlier batch
Backward_skipped ==
    /\ pc = "backward"
    /\ pc' = "sgd"
    /\ UNCHANGED <<e, i, cursor, heap, gradbuf, params, names, output, loss,
                   moving_loss, metric, test_accuracy, train_accuracy, printed,
                   hist, nUpdates, gradOf, lastEval, prevMoving>>
    /\ UNCHANGED <<ndVars, fnVars>>

\* loss.backward(): the engine writes every attached gradient buffer; a
\* non-finite loss differentiates to NaN through log, the division and the
\* dot products
Backward ==
    /\ pc = "backward"
    /\ IF HasNonFinite(loss)
       THEN gradbuf' = AllNaN(heap)
       ELSE gradbuf' \in GradChoices(heap)
    /\ gradOf' = <<e, i>>
    /\ hist' = Append(hist, "backward")
    /\ pc' = "sgd"
    /\ UNCHANGED <<e, i, cursor, heap, params, names, output, loss, moving_loss,
                   metric, test_accuracy, train_accuracy, printed, nUpdates,
                   lastEval, prevMoving>>
    /\ UNCHANGED <<ndVars, fnVars>>

\* SGD(params, .01)
Sgd ==
    /\ pc = "sgd"
    /\ heap' = SGD(heap, gradbuf, params, Lr)
    /\ nUpdates' = nUpdates + 1
    /\ hist' = Append(hist, "sgd")
    /\ pc' = "moving"
    /\ UNCHANGED <<e, i, cursor, gradbuf, params, names, output, loss, moving_loss,
                   metric, test_accuracy, train_accuracy, printed, gradOf,
                   lastEval, prevMoving>>
    /\ UNCHANGED <<ndVars, fnVars>>

\* np.mean(a) of a sequence of floats
NpMean(a) == FDiv(FSum(a), Fin(Len(a)))

\* np.mean(loss.asnumpy()[0]): element 0 of the loss vector, averaged
BatchLoss(l) == NpMean(<<l[1]>>)

\* the moving average of the losses
Moving ==
    /\ pc = "moving"
    /\ prevMoving' = moving_loss
    /\ IF i = 0
       THEN moving_loss' = BatchLoss(loss)
       ELSE moving_loss' = FAdd(FMul(Keep, moving_loss), FMul(Blend, BatchLoss(loss)))
    /\ pc' = "batch"
    /\ UNCHANGED <<e, i, cursor, heap, gradbuf, params, names, output, loss,
                   metric, test_accuracy, train_accuracy, printed, hist, nUpdates,
                   gradOf, lastEval>>
    /\ UNCHANGED <<ndVars, fnVars>>

RECURSIVE CountHits(_, _, _)
CountHits(batches, h, nm) ==
    IF batches = <<>> THEN 0
    ELSE Hits(Head(batches).label, net(h, nm, Head(batches).data))
         + CountHits(Tail(batches), h, nm)

RECURSIVE CountSamples(_)
CountSamples(batches) ==
    IF batches = <<>> THEN 0 ELSE Len(Head(batches).label) + CountSamples(Tail(batches))

\* evaluate_accuracy(data_iterator, net): reset the iterator, update the
\* metric with every batch, return metric.get()[1]
evaluate_accuracy(m, which) == EvalLoop(m, Iterators[which], heap, names)

\* variant: the evaluation loop also applies the update of the training loop
EvalTest_withUpdate ==
    /\ pc = "eval_test"
    /\ metric' = evaluate_accuracy(metric, "test")
    /\ test_accuracy' = MetricGet(metric')
    /\ cursor' = [cursor EXCEPT !.test = Len(TestData)]
    /\ lastEval' = [hits |-> CountHits(TestData, heap, names),
                    n |-> CountSamples(TestData), which |-> "test"]
    /\ heap' = SGD(heap, gradbuf, params, Lr)
    /\ pc' = "eval_train"
    /\ UNCHANGED <<e, i, gradbuf, params, names, output, loss, moving_loss,
                   train_accuracy, printed, hist, nUpdates, gradOf, prevMoving>>
    /\ UNCHANGED <<ndVars, fnVars>>

\* test_accuracy = evaluate_accuracy(test_data, net)
EvalTest ==
    /\ pc = "eval_test"
    /\ metric' = evaluate_accuracy(metric, "test")
    /\ test_accuracy' = MetricGet(metric')
    /\ cursor' = [cursor EXCEPT !.test = Len(TestData)]
    /\ lastEval' = [hits |-> CountHits(TestData, heap, names),
                    n |-> CountSamples(TestData), which |-> "test"]
    /\ pc' = "eval_train"
    /\ UNCHANGED <<e, i, heap, gradbuf, params, names, output, loss, moving_loss,
                   train_accuracy, printed, hist, nUpdates, gradOf, prevMoving>>
    /\ UNCHANGED <<ndVars, fnVars>>

\* train_accuracy = evaluate_accuracy(train_data, net)
EvalTrain ==
    /\ pc = "eval_train"
    /\ metric' = evaluate_accuracy(metric, "train")
    /\ train_accuracy' = MetricGet(metric')
    /\ cursor' = [cursor EXCEPT !.train = Len(TrainData)]
    /\ lastEval' = [hits |-> CountHits(TrainData, heap, names),
                    n |-> CountSamples(TrainData), which |-> "train"]
    /\ pc' = "print"
    /\ UNCHANGED <<e, i, heap, gradbuf, params, names, output, loss, moving_loss,
                   test_accuracy, printed, hist, nUpdates, gradOf, prevMoving>>
    /\ UNCHANGED <<ndVars, fnVars>>

\* print("Epoch %s. Loss: %s, Train_acc %s, Test_acc %s" % ...)
PrintEpoch ==
    /\ pc = "print"
    /\ printed' = Append(printed, [epoch |-> e, loss |-> moving_loss,
                                   train_acc |-> train_accuracy,
                                   test_acc |-> test_accuracy])
    /\ e' = e + 1
    /\ pc' = "epoch"
    /\ UNCHANGED <<i, cursor, heap, gradbuf, params, names, output, loss,
                   moving_loss, metric, test_accuracy, train_accuracy, hist,
                   nUpdates, gradOf, lastEval, prevMoving>>
    /\ UNCHANGED <<ndVars, fnVars>>

Next ==
    \/ EpochStart
    \/ NextBatch
    \/ Forward
    \/ Loss
    \/ Backward
    \/ Sgd
    \/ Moving
    \/ EvalTest
    \/ EvalTrain
    \/ PrintEpoch
    \/ Finish

Spec == Init /\ [][Next]_vars

-----------------------------------------------------------------------------
(* softmax and cross_entropy applied to drawn score batches.                *)

\* rows of a drawn batch
BatchRows == 2

\* scores: equal to the maximum, just below it, and further below it than
\* the exponent range of the format
ScoreVals == {0, -1, -(ExpRange + 1)}

NoMlpState ==
    /\ pc = "off" /\ e = 0 /\ i = 0 /\ cursor = <<>> /\ heap = <<>> /\ gradbuf = <<>>
    /\ params = <<>> /\ names = <<>> /\ output = <<>> /\ loss = <<>>
    /\ moving_loss = Fin(0) /\ metric = <<>> /\ test_accuracy = NaN
    /\ train_accuracy = NaN /\ printed = <<>> /\ hist = <<>> /\ nUpdates = 0
    /\ gradOf = <<>> /\ lastEval = <<>> /\ prevMoving = Fin(0)

InitFn ==
    /\ fn_pc = "in"
    /\ fn_in \in [1..BatchRows -> [1..NumClasses -> {Fin(v) : v \in ScoreVals}]]
    /\ fn_label \in [1..BatchRows -> 0..(NumClasses - 1)]
    /\ fn_out = <<>>
    /\ NoMlpState
    /\ NoNdState

\* yhat = softmax(yhat_linear)
ApplySoftmax ==
    /\ fn_pc = "in"
    /\ fn_out' = softmax(fn_in)
    /\ fn_pc' = "softmax"
    /\ UNCHANGED <<fn_in, fn_label>>
    /\ UNCHANGED <<mlpVars, ndVars>>

\* loss = cross_entropy(output, label_one_hot), on the output of softmax
ApplyCrossEntropy ==
    /\ fn_pc = "softmax"
    /\ fn_in' = fn_out
    /\ fn_out' = cross_entropy(fn_out, OneHot(fn_label, NumClasses))
    /\ fn_pc' = "cross_entropy"
    /\ UNCHANGED fn_label
    /\ UNCHANGED <<mlpVars, ndVars>>

NextFn == ApplySoftmax \/ ApplyCrossEntropy

SpecFn == InitFn /\ [][NextFn]_vars

-----------------------------------------------------------------------------
(* The NDArray tutorial: arrays are buffers on a heap, python names are     *)
(* references to them.                                                      *)

\* statements of the tutorial run after the first cell
MaxStmts == 3

\* largest element value written
MaxVal == 2

NdNames == {"x", "y", "z"}
Contexts == {"cpu(0)", "cpu(1)"}

\* element-wise a + b
VAdd(a, b) == Tup([k \in 1..Len(a) |-> a[k] + b[k]])

VMaxInt(a) == CHOOSE m \in {a[k] : k \in 1..Len(a)} : \A k \in 1..Len(a) : a[k] <= m

\* a newly allocated buffer gets the next free id
NewId(h) == Len(h) + 1
Alloc(h, buf) == Append(h, buf)

\* a name is bound when it refers to an allocated array (0: not assigned yet)
Bound(n) == env[n] \in 1..Len(nd)
IsMx(n) == Bound(n) /\ nd[env[n]].lib = "mx"
IsNp(n) == Bound(n) /\ nd[env[n]].lib = "np"

\* x = nd.ones(...); y = mx.nd.ones(..., mx.cpu())
InitNd ==
    /\ nd = << [ctx |-> "cpu(0)", data |-> <<1, 1>>, lib |-> "mx"],
               [ctx |-> "cpu(0)", data |-> <<1, 1>>, lib |-> "mx"] >>
    /\ env = [n \in NdNames |-> CASE n = "x" -> 1 [] n = "y" -> 2 [] OTHER -> 0]
    /\ last = [op |-> "init", dst |-> "x", a |-> "x", b |-> "y", ctx |-> "cpu(0)", n |-> 0]
    /\ NoMlpState
    /\ NoFnState

\* the tutorial has statements left to run
CanRun == last.n < MaxStmts

CanAdd(a, b) ==
    /\ Bound(a) /\ Bound(b)
    /\ nd[env[a]].lib = nd[env[b]].lib
    /\ nd[env[a]].ctx = nd[env[b]].ctx
    /\ VMaxInt(VAdd(nd[env[a]].data, nd[env[b]].data)) <= MaxVal

\* dst = a + b: new memory for the sum, and a reference to it assigned to dst
AddNew(dst, a, b) ==
    /\ CanRun
    /\ CanAdd(a, b)
    /\ nd' = Alloc(nd, [nd[env[a]] EXCEPT !.data = VAdd(nd[env[a]].data, nd[env[b]].data)])
    /\ env' = [env EXCEPT ![dst] = NewId(nd)]
    /\ last' = [op |-> "addnew", dst |-> dst, a |-> a, b |-> b, ctx |-> nd[env[a]].ctx, n |-> last.n + 1]
    /\ UNCHANGED <<mlpVars, fnVars>>

\* variant: the slice assignment allocates like dst = a + b
AddInPlace_rebind(dst, a, b) ==
    /\ CanRun
    /\ CanAdd(a, b)
    /\ Bound(dst)
    /\ nd' = Alloc(nd, [nd[env[a]] EXCEPT !.data = VAdd(nd[env[a]].data, nd[env[b]].data)])
    /\ env' = [env EXCEPT ![dst] = NewId(nd)]
    /\ last' = [op |-> "inplace", dst |-> dst, a |-> a, b |-> b, ctx |-> nd[env[dst]].ctx,
                n |-> last.n + 1]
    /\ UNCHANGED <<mlpVars, fnVars>>

\* dst[:] = a + b: the sum is written into the memory dst refers to
AddInPlace(dst, a, b) ==
    /\ CanRun
    /\ CanAdd(a, b)
    /\ Bound(dst)
    /\ nd[env[dst]].lib = nd[env[a]].lib
    /\ nd' = [nd EXCEPT ![env[dst]].data = VAdd(nd[env[a]].data, nd[env[b]].data)]
    /\ env' = env
    /\ last' = [op |-> "inplace", dst |-> dst, a |-> a, b |-> b, ctx |-> nd[env[dst]].ctx, n |-> last.n + 1]
    /\ UNCHANGED <<mlpVars, fnVars>>

\* dst = src: one more reference to the same array
Bind(dst, src) ==
    /\ CanRun
    /\ Bound(src)
    /\ dst # src
    /\ nd' = nd
    /\ env' = [env EXCEPT ![dst] = env[src]]
    /\ last' = [op |-> "bind", dst |-> dst, a |-> src, b |-> src, ctx |-> nd[env[src]].ctx, n |-> last.n + 1]
    /\ UNCHANGED <<mlpVars, fnVars>>

\* dst[k] = v: a write to one element (b[0] = 2, x[3,2] = 9.0)
SetElem(dst, k, v) ==
    /\ CanRun
    /\ Bound(dst)
    /\ k \in 1..Len(nd[env[dst]].data)
    /\ nd' = [nd EXCEPT ![env[dst]].data[k] = v]
    /\ env' = env
    /\ last' = [op |-> "setelem", dst |-> dst, a |-> dst, b |-> dst, ctx |-> nd[env[dst]].ctx, n |-> last.n + 1]
    /\ UNCHANGED <<mlpVars, fnVars>>

\* variant: the NumPy array is a view of the NDArray's memory
AsNumpy_view(dst, src) ==
    /\ CanRun
    /\ IsMx(src)
    /\ nd' = nd
    /\ env' = [env EXCEPT ![dst] = env[src]]
    /\ last' = [op |-> "asnumpy", dst |-> dst, a |-> src, b |-> src, ctx |-> "host",
                n |-> last.n + 1]
    /\ UNCHANGED <<mlpVars, fnVars>>

\* dst = src.asnumpy(): a NumPy array in host memory holding a copy
AsNumpy(dst, src) ==
    /\ CanRun
    /\ IsMx(src)
    /\ nd' = Alloc(nd, [ctx |-> "host", data |-> nd[env[src]].data, lib |-> "np"])
    /\ env' = [env EXCEPT ![dst] = NewId(nd)]
    /\ last' = [op |-> "asnumpy", dst |-> dst, a |-> src, b |-> src, ctx |-> "host", n |-> last.n + 1]
    /\ UNCHANGED <<mlpVars, fnVars>>

\* dst = nd.array(src, ctx): an NDArray on ctx holding a copy
NdArray(dst, src, ctx) ==
    /\ CanRun
    /\ IsNp(src)
    /\ nd' = Alloc(nd, [ctx |-> ctx, data |-> nd[env[src]].data, lib |-> "mx"])
    /\ env' = [env EXCEPT ![dst] = NewId(nd)]
    /\ last' = [op |-> "ndarray", dst |-> dst, a |-> src, b |-> src, ctx |-> ctx, n |-> last.n + 1]
    /\ UNCHANGED <<mlpVars, fnVars>>

\* dst = src.copyto(ctx): always a copy in new memory on ctx
CopyTo(dst, src, ctx) ==
    /\ CanRun
    /\ IsMx(src)
    /\ nd' = Alloc(nd, [ctx |-> ctx, data |-> nd[env[src]].data, lib |-> "mx"])
    /\ env' = [env EXCEPT ![dst] = NewId(nd)]
    /\ last' = [op |-> "copyto", dst |-> dst, a |-> src, b |-> src, ctx |-> ctx, n |-> last.n + 1]
    /\ UNCHANGED <<mlpVars, fnVars>>

\* variant: as_in_context copies whatever the context of src
AsInContext_copy(dst, src, ctx) ==
    /\ CanRun
    /\ IsMx(src)
    /\ nd' = Alloc(nd, [ctx |-> ctx, data |-> nd[env[src]].data, lib |-> "mx"])
    /\ env' = [env EXCEPT ![dst] = NewId(nd)]
    /\ last' = [op |-> "as_in_context", dst |-> dst, a |-> src, b |-> src, ctx |-> ctx,
                n |-> last.n + 1]
    /\ UNCHANGED <<mlpVars, fnVars>>

\* dst = src.as_in_context(ctx): src itself when it already lives on ctx,
\* a copy on ctx otherwise
AsInContext(dst, src, ctx) ==
    /\ CanRun
    /\ IsMx(src)
    /\ IF nd[env[src]].ctx = ctx
       THEN /\ nd' = nd
            /\ env' = [env EXCEPT ![dst] = env[src]]
       ELSE /\ nd' = Alloc(nd, [ctx |-> ctx, data |-> nd[env[src]].data, lib |-> "mx"])
            /\ env' = [env EXCEPT ![dst] = NewId(nd)]
    /\ last' = [op |-> "as_in_context", dst |-> dst, a |-> src, b |-> src, ctx |-> ctx, n |-> last.n + 1]
    /\ UNCHANGED <<mlpVars, fnVars>>

NextNd ==
    \/ \E dst \in NdNames : AddNew(dst, "x", "y")
    \/ \E dst \in NdNames : AddInPlace(dst, "x", "y")
    \/ \E dst \in NdNames, src \in NdNames : Bind(dst, src)
    \/ \E dst \in NdNames : SetElem(dst, 1, MaxVal)
    \/ \E dst \in NdNames, src \in NdNames : AsNumpy(dst, src)
    \/ \E dst \in NdNames, src \in NdNames, ctx \in Contexts : NdArray(dst, src, ctx)
    \/ \E dst \in NdNames, src \in NdNames, ctx \in Contexts : CopyTo(dst, src, ctx)
    \/ \E dst \in NdNames, src \in NdNames, ctx \in Contexts : AsInContext(dst, src, ctx)

SpecNd == InitNd /\ [][NextNd]_vars

\* a row of probabilities: finite, non-negative, summing to one
IsDistribution(row) ==
    /\ \A c \in 1..Len(row) : IsFin(row[c]) /\ row[c].n >= 0
    /\ FSum(row) = Fin(1)

\* C5: for every batch of scores, softmax returns an array of the same shape
\* whose entries are non-negative and whose every row sums to one
C5_SoftmaxRowsAreDistributions ==
    fn_pc = "softmax" =>
        /\ Len(fn_out) = Len(fn_in)
        /\ \A r \in 1..Len(fn_in) :
              /\ Len(fn_out[r]) = Len(fn_in[r])
              /\ IsDistribution(fn_out[r])

\* C9: cross_entropy returns one value per sample and, for a one-hot label
\* and a predicted distribution, that value is -log of the probability of
\* the true class
C9_CrossEntropyIsNegLogOfTrueClass ==
    fn_pc = "cross_entropy" =>
        /\ Len(fn_out) = Len(fn_label)
        /\ \A r \in 1..Len(fn_label) :
              IsDistribution(fn_in[r]) =>
                  fn_out[r] = FNeg(FLog(fn_in[r][fn_label[r] + 1]))

-----------------------------------------------------------------------------
(* Properties of the training cell.                                         *)

NTrain == Len(TrainData)

Fraction(ev) == IF ev.n = 0 THEN NaN ELSE Rat(ev.hits, ev.n)

\* C1: the value evaluate_accuracy returns is the fraction of correctly
\* classified samples among the samples of this call only
C1_AccuracyOfThisCallOnly ==
    /\ pc = "eval_train" => test_accuracy = Fraction(lastEval)
    /\ pc = "print" => train_accuracy = Fraction(lastEval)

ParamsAllNaN(h) ==
    \A id \in DOMAIN h : \A r \in 1..Len(h[id]) : \A c \in 1..Len(h[id][r]) :
        IsNaN(h[id][r][c])

SomeNaN(h) ==
    \E id \in DOMAIN h : \E r \in 1..Len(h[id]) : \E c \in 1..Len(h[id][r]) :
        IsNaN(h[id][r][c])

C2_Step ==
    pc = "sgd" =>
        /\ params' = params
        /\ names' = names
        /\ DOMAIN heap' = DOMAIN heap
        /\ gradbuf' = gradbuf
        /\ \A k \in 1..Len(params) :
              LET id == params[k]
              IN \A r \in 1..Len(heap[id]) : \A c \in 1..Len(heap[id][r]) :
                    heap'[id][r][c] = FSub(heap[id][r][c], FMul(Lr, gradbuf[id][r][c]))
        /\ \A nm \in DOMAIN names : \E k \in 1..Len(params) : names'[nm] = params'[k]

\* C2: SGD writes param - lr * param.grad into every tensor of params, in the
\* buffer the names W1..b3 refer to, and leaves the gradient buffers alone
C2_SgdUpdatesInPlace == [][C2_Step]_vars

C2_Witness ==
    /\ pc = "moving"
    /\ gradbuf[names.W1][1][1] = Fin(-200)
    /\ heap[names.W1][1][1] = Fin(3)

C3_Step ==
    /\ (pc = "backward" /\ \E k \in 1..Len(loss) : IsNaN(loss[k]))
          => (pc' = "sgd" /\ ParamsAllNaN(gradbuf'))
    /\ (pc = "sgd" /\ SomeNaN(gradbuf))
          => (pc' = "moving" /\ nUpdates' = nUpdates + 1 /\ SomeNaN(heap'))
    /\ ParamsAllNaN(heap) => ParamsAllNaN(heap')
    /\ (ParamsAllNaN(heap) /\ pc = "eval_test")
          => (metric'.num_inst > metric.num_inst /\ IsFin(test_accuracy'))
    /\ (ParamsAllNaN(heap) /\ pc = "eval_train")
          => (metric'.num_inst > metric.num_inst /\ IsFin(train_accuracy'))
    /\ (ParamsAllNaN(heap) /\ pc = "print")
          => (Len(printed') = Len(printed) + 1 /\ printed'[Len(printed')].epoch = e)
    /\ pc' = "done" => (nUpdates' = Epochs * NTrain /\ Len(printed') = Epochs)

\* C3: a NaN loss or gradient is written into the parameters by SGD and stays
\* there; every later batch is still updated, every epoch runs and prints
\* accuracies computed from the NaN parameters
C3_DivergenceIsNotRecovered == [][C3_Step]_vars

C3_Witness ==
    /\ pc = "done"
    /\ ParamsAllNaN(heap)
    /\ IsNaN(printed[Epochs].loss)
    /\ IsFin(printed[Epochs].test_acc)
    /\ IsFin(printed[Epochs].train_acc)

\* C4: per batch the steps are forward, loss, backward, update, in that
\* order; one update per batch, with the gradients of that batch's backward
\* pass; evaluation only after the last batch of the epoch
C4_BatchStepsInOrder ==
    /\ pc = "sgd" => (hist = <<"forward", "loss", "backward">> /\ gradOf = <<e, i>>)
    /\ pc = "moving" => hist = <<"forward", "loss", "backward", "sgd">>
    /\ pc = "batch" => nUpdates = e * NTrain + cursor.train
    /\ pc = "moving" => nUpdates = e * NTrain + i + 1
    /\ pc \in {"eval_test", "eval_train", "print"} => nUpdates = (e + 1) * NTrain

C4_Witness ==
    /\ pc = "eval_test"
    /\ e = Epochs - 1
    /\ gradOf = <<e, NTrain - 1>>

\* C10: moving_loss is the mean loss of the batch at the first batch of an
\* epoch, .99 * moving_loss + .01 * (mean loss of the batch) at every other
\* batch, and stays NaN within an epoch once it is NaN
C10_MovingAverageOfBatchMeans ==
    (pc = "batch" /\ hist = <<"forward", "loss", "backward", "sgd">>) =>
        /\ moving_loss = IF i = 0 THEN NpMean(loss)
                         ELSE FAdd(FMul(Keep, prevMoving), FMul(Blend, NpMean(loss)))
        /\ (i > 0 /\ IsNaN(prevMoving)) => IsNaN(moving_loss)

C11_Step ==
    pc \in {"eval_test", "eval_train"} =>
        /\ heap' = heap
        /\ gradbuf' = gradbuf
        /\ params' = params
        /\ names' = names
        /\ gradOf' = gradOf
        /\ nUpdates' = nUpdates
        /\ <<e', i', output', loss', moving_loss', printed'>>
              = <<e, i, output, loss, moving_loss, printed>>
        /\ IF pc = "eval_test"
           THEN cursor'.train = cursor.train /\ cursor'.test = Len(TestData)
           ELSE cursor'.test = cursor.test /\ cursor'.train = Len(TrainData)
        /\ metric'.num_inst = metric.num_inst
              + CountSamples(IF pc = "eval_test" THEN TestData ELSE TrainData)

\* C11: evaluate_accuracy leaves the six parameter tensors and their
\* gradient buffers as they were; it changes only the position of the
\* iterator it is given and the counters of the accuracy metric
C11_EvaluationChangesNoModelState == [][C11_Step]_vars

C11_Witness ==
    /\ pc = "eval_train"
    /\ lastEval.which = "test"
    /\ cursor.test = Len(TestData)
    /\ metric.num_inst >= CountSamples(TestData)
    /\ gradbuf[names.W1][1][1] = Fin(-200)
    /\ heap[names.W1][1][1] = Fin(3)

-----------------------------------------------------------------------------
(* Properties of the NDArray tutorial.                                      *)

Fresh(id) == id \notin 1..Len(nd) /\ id \in 1..Len(nd')
OldBuffersKept == \A k \in 1..Len(nd) : nd'[k] = nd[k]
OtherNamesKept(dst) == \A n \in NdNames \ {dst} : env'[n] = env[n]

C6_Step ==
    LET sum == VAdd(nd[env[last'.a]].data, nd[env[last'.b]].data)
    IN /\ last'.op = "inplace" =>
            /\ env' = env
            /\ Len(nd') = Len(nd)
            /\ \A n \in NdNames : env[n] = env[last'.dst] => nd'[env'[n]].data = sum
            /\ \A k \in 1..Len(nd) : k # env[last'.dst] => nd'[k] = nd[k]
       /\ last'.op = "addnew" =>
            /\ Fresh(env'[last'.dst])
            /\ nd'[env'[last'.dst]].data = sum
            /\ OldBuffersKept
            /\ OtherNamesKept(last'.dst)

\* C6: x[:] = x + y writes the sum into the buffer x refers to, seen through
\* every reference to it; x = x + y allocates a buffer, rebinds x and leaves
\* the old buffer as it was
C6_SliceAssignVsRebind == [][C6_Step]_vars

C6_Witness ==
    /\ last.op = "inplace"
    /\ last.dst = "x"
    /\ env["z"] = env["x"]
    /\ nd[env["z"]].data = <<2, 2>>

C7_Step ==
    /\ last'.op \in {"asnumpy", "ndarray"} =>
            /\ Fresh(env'[last'.dst])
            /\ nd'[env'[last'.dst]].data = nd[env[last'.a]].data
            /\ OldBuffersKept
            /\ OtherNamesKept(last'.dst)
    /\ last'.op = "setelem" =>
            /\ env' = env
            /\ \A k \in 1..Len(nd) : k # env[last'.dst] => nd'[k] = nd[k]

\* C7: a.asnumpy() and nd.array(b) give arrays in memory of their own: a
\* write to one array changes no other
C7_ConversionsCopy == [][C7_Step]_vars

C7_Witness ==
    /\ last.op = "setelem"
    /\ last.dst = "y"
    /\ nd[env["y"]].lib = "np"
    /\ nd[env["y"]].data = <<MaxVal, 1>>
    /\ nd[env["x"]].data = <<1, 1>>
    /\ Bound("z") /\ nd[env["z"]].lib = "mx" /\ nd[env["z"]].data = <<1, 1>>
    /\ env["z"] > env["y"]

C8_Step ==
    /\ last'.op = "copyto" =>
            /\ Fresh(env'[last'.dst])
            /\ nd'[env'[last'.dst]].data = nd[env[last'.a]].data
            /\ nd'[env'[last'.dst]].ctx = last'.ctx
            /\ OldBuffersKept
    /\ last'.op = "as_in_context" =>
            /\ IF nd[env[last'.a]].ctx = last'.ctx
               THEN env'[last'.dst] = env[last'.a] /\ nd' = nd
               ELSE Fresh(env'[last'.dst])
            /\ nd'[env'[last'.dst]].data = nd[env[last'.a]].data
            /\ nd'[env'[last'.dst]].ctx = last'.ctx
            /\ OldBuffersKept

\* C8: copyto(ctx) always allocates a copy on ctx; as_in_context(ctx) returns
\* the array itself when it lives on ctx and a copy on ctx otherwise; the
\* source array is unchanged
C8_CopytoVsAsInContext == [][C8_Step]_vars

C8_Witness ==
    /\ last.op = "copyto"
    /\ last.dst # last.a
    /\ nd[env[last.a]].ctx = last.ctx
    /\ env[last.dst] # env[last.a]
    /\ nd[env[last.dst]].ctx = last.ctx

====
